---- MODULE Spec2Model ----
(***************************************************************************)
(* A model of mpak's `run` command (src/src/commands/packages/run.ts):     *)
(* the per-package cache, the cache-validity decision, the pull steps      *)
(* (resolve, download, remove, extract, write metadata), user_config       *)
(* resolution with its interactive fallback, the environment merge and     *)
(* the child's launch and exit.                                            *)
(*                                                                         *)
(* Strings that the code takes apart (package specs, names, versions,      *)
(* paths) are sequences of chunks; strings that take part in placeholder   *)
(* substitution (env values, config values) are sequences of tokens, a     *)
(* token being literal text or one ${user_config.KEY} reference.           *)
(***************************************************************************)
EXTENDS Integers, Sequences, FiniteSets, TLC

(***************************************************************************)
(* Invocations (operating-system processes running `mpak run`).            *)
(***************************************************************************)
Procs == {"run1", "run2"}

(***************************************************************************)
(* Value strings: token sequences.                                         *)
(***************************************************************************)
Lit(s) == [t |-> "lit", v |-> s]
Ref(k) == [t |-> "ref", v |-> k]
EmptyStr == << >>
EmptyMap == [k \in {} |-> EmptyStr]

\* JavaScript truthiness of a string: the empty string is falsy.
Truthy(s) == s /= << >>

(***************************************************************************)
(* Package specs given on the command line, as chunk sequences.            *)
(***************************************************************************)
BaseSpec == <<"@", "acme", "/", "tool">>
PackageSpecs ==
    { BaseSpec,
      BaseSpec \o <<"@", "1.0.0">>,
      BaseSpec \o <<"@", "2.0.0">>,
      BaseSpec \o <<"@", "latest">> }

Versions == { <<"1.0.0">>, <<"2.0.0">> }

\* spec.lastIndexOf('@'), 1-based; 0 when there is none.
RECURSIVE LastIndexFrom(_, _, _)
LastIndexFrom(s, c, i) ==
    IF i = 0 THEN 0
    ELSE IF s[i] = c THEN i ELSE LastIndexFrom(s, c, i - 1)
LastIndexOf(s, c) == LastIndexFrom(s, c, Len(s))

\* Mutant: the split is made whether or not the prefix starts with '@'.
parsePackageSpec_NoScopeCheck(spec) ==
    LET at == LastIndexOf(spec, "@") IN
    IF at <= 1
    THEN [name |-> spec, hasVersion |-> FALSE, version |-> << >>]
    ELSE [name |-> SubSeq(spec, 1, at - 1), hasVersion |-> TRUE,
          version |-> SubSeq(spec, at + 1, Len(spec))]

\* run.ts parsePackageSpec.  lastAtIndex <= 0 in the code's 0-based index is
\* LastIndexOf <= 1 here.
parsePackageSpec(spec) ==
    LET at == LastIndexOf(spec, "@") IN
    IF at <= 1
    THEN [name |-> spec, hasVersion |-> FALSE, version |-> << >>]
    ELSE LET name == SubSeq(spec, 1, at - 1)
             version == SubSeq(spec, at + 1, Len(spec))
         IN IF name[1] /= "@"
            THEN [name |-> spec, hasVersion |-> FALSE, version |-> << >>]
            ELSE [name |-> name, hasVersion |-> TRUE, version |-> version]

\* String.prototype.replace(pattern, by) with a string pattern: the first
\* occurrence only.
RECURSIVE ReplaceFirst(_, _, _)
ReplaceFirst(s, c, by) ==
    IF s = << >> THEN << >>
    ELSE IF Head(s) = c THEN by \o Tail(s)
    ELSE <<Head(s)>> \o ReplaceFirst(Tail(s), c, by)

\* run.ts getCacheDir: the directory under ~/.mpak/cache.
getCacheDir(packageName) ==
    <<"~/.mpak/cache/">> \o ReplaceFirst(ReplaceFirst(packageName, "@", << >>), "/", <<"-">>)

CacheDirs == { getCacheDir(parsePackageSpec(s).name) : s \in PackageSpecs }

(***************************************************************************)
(* Bundles.  A bundle of version v is a set of files; the content of a     *)
(* file is tagged by the version of the bundle it came from.               *)
(***************************************************************************)
FileNames == {"manifest.json", "index.js", "server.py"}
NoFile == << >>

BundleNames(v) ==
    IF v = <<"1.0.0">> THEN {"manifest.json", "index.js"}
    ELSE {"manifest.json", "server.py"}

NoFiles == [f \in FileNames |-> NoFile]
BundleFiles(v) == [f \in FileNames |-> IF f \in BundleNames(v) THEN v ELSE NoFile]

(***************************************************************************)
(* The cache metadata file .mpak-meta.json.                                *)
(***************************************************************************)
MetaAbsent      == [kind |-> "absent",      version |-> << >>]
MetaUnparseable == [kind |-> "unparseable", version |-> << >>]
MetaNoVersion   == [kind |-> "noversion",   version |-> << >>]
MetaValid(v)    == [kind |-> "valid",       version |-> v]

EmptyCache == [exists |-> FALSE, meta |-> MetaAbsent, files |-> NoFiles]
FullCache(v) == [exists |-> TRUE, meta |-> MetaValid(v), files |-> BundleFiles(v)]

\* run.ts getCacheMetadata: null when the file is missing or does not parse,
\* otherwise whatever JSON.parse returned (no check that it carries a version).
Null == [isNull |-> TRUE, hasVersion |-> FALSE, version |-> << >>]
getCacheMetadata(c) ==
    IF c.meta.kind \in {"absent", "unparseable"} THEN Null
    ELSE IF c.meta.kind = "noversion"
         THEN [isNull |-> FALSE, hasVersion |-> FALSE, version |-> << >>]
         ELSE [isNull |-> FALSE, hasVersion |-> TRUE, version |-> c.meta.version]

\* cachedMeta.version === v, for a non-null cachedMeta (undefined equals no string).
MetaVersionIs(cachedMeta, v) == cachedMeta.hasVersion /\ cachedMeta.version = v

\* Mutant: the metadata is written without its version.
writeCacheMetadata_NoVersion(bundleVersion) == MetaNoVersion

\* run.ts writeCacheMetadata: the file written for a pulled bundle.
writeCacheMetadata(bundleVersion) == MetaValid(bundleVersion)

\* Mutant: the decision forgets the update flag.
NeedsPull_IgnoringUpdate(cachedMeta, requested, update) ==
    IF ~cachedMeta.isNull
    THEN IF requested.hasVersion /\ Truthy(requested.version)
         THEN ~MetaVersionIs(cachedMeta, requested.version)
         ELSE FALSE
    ELSE TRUE

\* run.ts lines 314-326: the first cache-validity decision.
NeedsPull(cachedMeta, requested, update) ==
    IF ~cachedMeta.isNull /\ ~update
    THEN IF requested.hasVersion /\ Truthy(requested.version)
         THEN ~MetaVersionIs(cachedMeta, requested.version)
         ELSE FALSE
    ELSE TRUE

\* Mutant: the download is never skipped once the registry was asked.
StillNeedsPull_NeverSkips(cachedMeta, bundleVersion, update) == TRUE

\* Mutant: the skip forgets the update flag.
StillNeedsPull_IgnoringUpdate(cachedMeta, bundleVersion, update) ==
    ~(~cachedMeta.isNull /\ MetaVersionIs(cachedMeta, bundleVersion))

\* run.ts lines 333-336: after the registry answered, skip the download when
\* the cached version is the resolved one and no update was asked for.
StillNeedsPull(cachedMeta, bundleVersion, update) ==
    ~(~cachedMeta.isNull /\ MetaVersionIs(cachedMeta, bundleVersion) /\ ~update)

\* The registry (RegistryClient.getDownloadInfo, an external collaborator): an
\* exact known version resolves to itself, anything else (no version, a tag)
\* to some published version.
ResolveSet(requested) ==
    IF requested.hasVersion /\ requested.version \in Versions
    THEN {requested.version}
    ELSE Versions

(***************************************************************************)
(* Manifests.  The manifest of a bundle is fixed by the bundle's version.  *)
(***************************************************************************)
NoDefault == [type |-> "none", s |-> << >>, n |-> 0, b |-> FALSE]
NumDefault(n) == [type |-> "number", s |-> << >>, n |-> n, b |-> FALSE]

Field(key, required, default) ==
    [key |-> key, required |-> required, default |-> default]

DirMarker == "${__dirname}"

\* The text ${user_config.<key>} inside an argument.
UserConfigRef(key) == <<"${user_config.", key, "}">>

\* A bundle cached by an earlier release and since withdrawn from the
\* registry; its manifest declares a server type this release does not know.
WithdrawnVersion == <<"0.9.0">>

ManifestOf(v) ==
    IF v = <<"1.0.0">>
    THEN [type |-> "node",
          entry_point |-> <<"index.js">>,
          command |-> <<"node">>,
          args |-> << <<DirMarker, "/index.js">>, <<"--stdio">>,
                      <<"--key=">> \o UserConfigRef("api_key") >>,
          env |-> (<<"API_KEY">> :> <<Ref("api_key")>>)
                  @@ (<<"DEBUG">> :> <<Ref("debug")>>)
                  @@ (<<"PORT">> :> <<Lit("tcp:"), Ref("port")>>),
          user_config |-> << Field("api_key", TRUE, NoDefault),
                             Field("port", FALSE, NumDefault(8080)),
                             Field("token", TRUE, NoDefault),
                             Field("debug", FALSE, NoDefault) >>]
    ELSE IF v = <<"2.0.0">>
    THEN [type |-> "python",
          entry_point |-> <<"server.py">>,
          command |-> <<"python">>,
          args |-> << >>,
          env |-> (<<"PYTHONPATH">> :> <<Lit("/bundle/lib")>>)
                  @@ (<<"API_KEY">> :> <<Lit("baked-in")>>),
          user_config |-> << >>]
    ELSE [type |-> "wasm",
          entry_point |-> <<"server.py">>,
          command |-> << >>,
          args |-> << >>,
          env |-> EmptyMap,
          user_config |-> << Field("token", TRUE, NoDefault) >>]

\* String(field.default)
StringOf(d) ==
    CASE d.type = "string" -> d.s
      [] d.type = "number" -> <<Lit(ToString(d.n))>>
      [] d.type = "boolean" -> <<Lit(IF d.b THEN "true" ELSE "false")>>

\* key.toUpperCase()
ToUpperCase(key) ==
    CASE key = "api_key" -> "API_KEY"
      [] key = "port" -> "PORT"
      [] key = "token" -> "TOKEN"
      [] key = "debug" -> "DEBUG"

\* `MPAK_CONFIG_${key.toUpperCase()}`
EnvVarName(key) == <<"MPAK_CONFIG_", ToUpperCase(key)>>

(***************************************************************************)
(* Ambient process environments an invocation may be started in.           *)
(***************************************************************************)
AmbientEnvs ==
    { EmptyMap,
      (<<"API_KEY">> :> <<Lit("desktop-key")>>)
        @@ (EnvVarName("api_key") :> <<Lit("env-key")>>)
        @@ (EnvVarName("port") :> <<Lit("9090")>>),
      (EnvVarName("token") :> <<Lit("env-token")>>)
        @@ (<<"PYTHONPATH">> :> <<Lit("/usr/lib/py")>>) }

(***************************************************************************)
(* ~/.mpak/config.json, as far as `run` reads and writes it: the           *)
(* per-package key/value maps.                                             *)
(***************************************************************************)
NoPackages == [n \in {} |-> EmptyMap]
ThePackage == parsePackageSpec(BaseSpec).name

InitialConfigFiles ==
    { [exists |-> FALSE, packages |-> NoPackages],
      [exists |-> TRUE,
       packages |-> (ThePackage :> (("port" :> <<Lit("7070")>>)
                                    @@ ("api_key" :> <<Lit("stored-key")>>)))],
      [exists |-> TRUE,
       packages |-> (ThePackage :> ("token" :> <<Lit("stored-token")>>))] }

\* What the operator may type at a prompt, and at the "save?" question.
PromptAnswers == { EmptyStr, <<Lit("typed")>> }
SaveAnswers == {"", "n", "N", "y"}
toLowerCase(a) == IF a = "N" THEN "n" ELSE a

\* The child's exit code as the 'exit' event reports it (null after a signal).
ChildCodes ==
    { [isNull |-> TRUE, n |-> 0], [isNull |-> FALSE, n |-> 0], [isNull |-> FALSE, n |-> 3] }

(***************************************************************************)
(* Placeholder substitution and the environment merge.                     *)
(***************************************************************************)
\* userConfigValues is a plain object ({} in gatherUserConfigValues), so
\* userConfigValues[key] also finds what the object inherits from
\* Object.prototype; the replacer's return value is turned into a string.
ObjectPrototypeKeys == {"constructor", "toString"}
InheritedText(key) ==
    IF key = "constructor"
    THEN <<Lit("function Object() { [native code] }")>>
    ELSE <<Lit("function toString() { [native code] }")>>

\* obj[key]: [defined |-> it is not undefined, value |-> String(obj[key])]
PropertyOf(obj, key) ==
    IF key \in DOMAIN obj THEN [defined |-> TRUE, value |-> obj[key]]
    ELSE IF key \in ObjectPrototypeKeys
    THEN [defined |-> TRUE, value |-> InheritedText(key)]
    ELSE [defined |-> FALSE, value |-> EmptyStr]

\* run.ts substituteUserConfig: one pass over the value; each reference is
\* replaced by userConfigValues[key] ?? match, any other token stays.
RECURSIVE substituteUserConfig(_, _)
substituteUserConfig(value, userConfigValues) ==
    IF value = << >> THEN << >>
    ELSE LET tok == Head(value)
             rest == substituteUserConfig(Tail(value), userConfigValues)
         IN IF tok.t = "ref" /\ PropertyOf(userConfigValues, tok.v).defined
            THEN PropertyOf(userConfigValues, tok.v).value \o rest
            ELSE <<tok>> \o rest

\* run.ts substituteEnvVars
substituteEnvVars(env, userConfigValues) ==
    [n \in DOMAIN env |-> substituteUserConfig(env[n], userConfigValues)]

\* The object spread { ...first, ...second }: second wins on a shared key.
Spread(first, second) ==
    [n \in DOMAIN first \cup DOMAIN second |->
        IF n \in DOMAIN second THEN second[n] ELSE first[n]]

\* run.ts line 385: the environment the child starts from.
MergeEnv(processEnv, substitutedEnv) == Spread(processEnv, substitutedEnv)

\* run.ts resolveArgs: every ${__dirname} of every argument becomes cacheDir.
RECURSIVE ReplaceAll(_, _, _)
ReplaceAll(s, c, by) ==
    IF s = << >> THEN << >>
    ELSE (IF Head(s) = c THEN by ELSE <<Head(s)>>) \o ReplaceAll(Tail(s), c, by)
resolveArgs(args, cacheDir) ==
    [i \in 1..Len(args) |-> ReplaceAll(args[i], DirMarker, cacheDir)]

\* path.join(cacheDir, rel)
join(cacheDir, rel) == cacheDir \o <<"/">> \o rel

(***************************************************************************)
(* user_config resolution (run.ts gatherUserConfigValues, lines 229-244).  *)
(***************************************************************************)
\* Mutant: the ambient variable is looked at before the stored value.
ResolveField_EnvFirst(field, storedConfig, processEnv) ==
    IF EnvVarName(field.key) \in DOMAIN processEnv
    THEN [has |-> TRUE, value |-> processEnv[EnvVarName(field.key)]]
    ELSE IF field.key \in DOMAIN storedConfig
    THEN [has |-> TRUE, value |-> storedConfig[field.key]]
    ELSE IF field.default.type /= "none"
    THEN [has |-> TRUE, value |-> StringOf(field.default)]
    ELSE [has |-> FALSE, value |-> EmptyStr]

\* One field: [has |-> a value was found, value |-> it], by priority
\* stored config, then MPAK_CONFIG_<KEY>, then the declared default.
ResolveField(field, storedConfig, processEnv) ==
    IF field.key \in DOMAIN storedConfig
    THEN [has |-> TRUE, value |-> storedConfig[field.key]]
    ELSE IF EnvVarName(field.key) \in DOMAIN processEnv
    THEN [has |-> TRUE, value |-> processEnv[EnvVarName(field.key)]]
    ELSE IF field.default.type /= "none"
    THEN [has |-> TRUE, value |-> StringOf(field.default)]
    ELSE [has |-> FALSE, value |-> EmptyStr]

\* The loop over Object.entries(userConfig): the result map.
ResolvedValues(userConfig, storedConfig, processEnv) ==
    LET found == { i \in 1..Len(userConfig) :
                     ResolveField(userConfig[i], storedConfig, processEnv).has }
        at(k) == CHOOSE i \in found : userConfig[i].key = k
    IN [k \in { userConfig[i].key : i \in found } |->
          ResolveField(userConfig[at(k)], storedConfig, processEnv).value]

\* The loop's missingRequired list, in the order of Object.entries(userConfig).
RECURSIVE MissingRequired(_, _, _)
MissingRequired(userConfig, storedConfig, processEnv) ==
    IF userConfig = << >> THEN << >>
    ELSE LET f == Head(userConfig)
             rest == MissingRequired(Tail(userConfig), storedConfig, processEnv)
         IN IF ~ResolveField(f, storedConfig, processEnv).has /\ f.required
            THEN <<f.key>> \o rest
            ELSE rest

\* Mutant: the terminal check is left out.
AfterGather_AlwaysPrompts(missingRequired, isInteractive) ==
    IF missingRequired /= << >> THEN "prompt" ELSE "launch"

\* run.ts lines 247-256: with fields missing, a run without a terminal exits,
\* a run with one starts prompting; with none missing it goes on to launch.
AfterGather(missingRequired, isInteractive) ==
    IF missingRequired /= << >>
    THEN IF ~isInteractive THEN "exit1" ELSE "prompt"
    ELSE "launch"

\* run.ts promptForValue, lines 197-204: an empty answer becomes the default
\* when there is one.
promptForValue(field, answer) ==
    IF ~Truthy(answer) /\ field.default.type /= "none"
    THEN StringOf(field.default)
    ELSE answer

\* Mutant: an empty value is accepted.
AfterAnswer_AcceptsEmpty(value, field) == "accept"

\* run.ts lines 259-262: an empty value for a required field ends the run.
AfterAnswer(value, field) ==
    IF ~Truthy(value) /\ field.required THEN "exit1" ELSE "accept"

\* Mutant: only an explicit yes saves.
WantsSave_OnlyYes(answer) == toLowerCase(answer) = "y"

\* run.ts line 275: anything but n/N saves.
WantsSave(answer) == toLowerCase(answer) /= "n"

FieldOf(userConfig, key) ==
    userConfig[CHOOSE i \in 1..Len(userConfig) : userConfig[i].key = key]

(***************************************************************************)
(* ConfigManager (config-manager.ts), as used by `run`.                    *)
(***************************************************************************)
\* getPackageConfig(name) || {}
getPackageConfig(packages, name) ==
    IF name \in DOMAIN packages THEN packages[name] ELSE EmptyMap

\* Mutant: the value is kept for a later, batched write.
setPackageConfigValue_Deferred(packages, name, key, value) == packages

\* setPackageConfigValue on the manager's cached config.
setPackageConfigValue(packages, name, key, value) ==
    LET old == getPackageConfig(packages, name)
        new == [k \in DOMAIN old \cup {key} |-> IF k = key THEN value ELSE old[k]]
    IN [n \in DOMAIN packages \cup {name} |-> IF n = name THEN new ELSE packages[n]]

(***************************************************************************)
(* ConfigManager (config-manager.ts) on the whole config file.  A parsed   *)
(* config is held by the JSON kinds of its members:                        *)
(*   [top, version, lastUpdated : kind, registryUrl : [kind, s],           *)
(*    packagesKind : kind, packages : name -> [kind, values],              *)
(*    extra : an unknown top-level field is present]                       *)
(* with values : key -> [kind, s].                                         *)
(***************************************************************************)

\* typeof x
TypeOf(kind) == IF kind \in {"null", "array", "object"} THEN "object" ELSE kind

JUndefined == [kind |-> "undefined", s |-> EmptyStr]
JString(s) == [kind |-> "string", s |-> s]

NoValues == [k \in {} |-> JUndefined]
PackageEntry(kind, values) == [kind |-> kind, values |-> values]
NoEntries == [n \in {} |-> PackageEntry("object", NoValues)]

ConfigPath == <<"~", "/", ".mpak", "/", "config.json">>
DefaultRegistryUrl == <<"https://api.mpak.dev">>

ConfigOf(registryUrl, packagesKind, packages) ==
    [top |-> "object", version |-> "string", lastUpdated |-> "string",
     registryUrl |-> registryUrl, packagesKind |-> packagesKind,
     packages |-> packages, extra |-> FALSE]

\* loadConfig lines 149-152: { version: CONFIG_VERSION, lastUpdated }
NewConfig == ConfigOf(JUndefined, "undefined", NoEntries)

\* JSON.parse of a text whose top-level value is not an object with members.
ScalarConfig(kind) ==
    [top |-> kind, version |-> "undefined", lastUpdated |-> "undefined",
     registryUrl |-> JUndefined, packagesKind |-> "undefined",
     packages |-> NoEntries, extra |-> FALSE]

\* The file: missing, unreadable, not JSON, or the JSON text of `doc`.
ConfigFileOf(state, doc) == [exists |-> TRUE, state |-> state, doc |-> doc]
MissingConfigFile == [exists |-> FALSE, state |-> "json", doc |-> NewConfig]

Corrupted(message) == [ok |-> FALSE, message |-> message]

\* validateConfig, lines 44-121
validateConfig(data) ==
    IF TypeOf(data.top) /= "object" \/ data.top = "null"
    THEN Corrupted("Config file must be a JSON object")
    ELSE IF TypeOf(data.version) /= "string"
    THEN Corrupted("Config missing required field: version (string)")
    ELSE IF TypeOf(data.lastUpdated) /= "string"
    THEN Corrupted("Config missing required field: lastUpdated (string)")
    ELSE IF data.registryUrl.kind /= "undefined"
            /\ TypeOf(data.registryUrl.kind) /= "string"
    THEN Corrupted("Config field registryUrl must be a string")
    ELSE IF data.packagesKind /= "undefined"
            /\ (TypeOf(data.packagesKind) /= "object" \/ data.packagesKind = "null")
    THEN Corrupted("Config field packages must be an object")
    ELSE IF data.packagesKind /= "undefined"
            /\ \E n \in DOMAIN data.packages :
                 \/ TypeOf(data.packages[n].kind) /= "object"
                 \/ data.packages[n].kind = "null"
    THEN Corrupted("Config packages.<name> must be an object")
    ELSE IF data.packagesKind /= "undefined"
            /\ \E n \in DOMAIN data.packages :
                 \E k \in DOMAIN data.packages[n].values :
                    TypeOf(data.packages[n].values[k].kind) /= "string"
    THEN Corrupted("Config packages.<name>.<key> must be a string")
    ELSE IF data.extra
    THEN Corrupted("Config contains unknown field")
    ELSE [ok |-> TRUE, message |-> ""]

\* JSON.stringify followed by JSON.parse: what the written text holds.  An
\* array keeps the members at its indices only, and no package name or
\* config key is an array index.
Stringify(config) ==
    LET IsArrayIndex(name) == FALSE
        IndexMembers(members) ==
            [n \in { x \in DOMAIN members : IsArrayIndex(x) } |-> members[n]]
        entryText(e) ==
            IF e.kind = "array" THEN [e EXCEPT !.values = IndexMembers(e.values)] ELSE e
        kept == IF config.packagesKind = "array"
                THEN IndexMembers(config.packages)
                ELSE config.packages
    IN [config EXCEPT !.packages = [n \in DOMAIN kept |-> entryText(kept[n])]]

\* saveConfig, lines 184-191
saveConfig(config) == ConfigFileOf("json", Stringify(config))

\* A ConfigManager after its constructor: this.config = null.
NewManager == [loaded |-> FALSE, config |-> NewConfig, calls |-> 0]

Threw(message, manager, file) ==
    [threw |-> TRUE, message |-> message, path |-> ConfigPath,
     manager |-> manager, file |-> file, wrote |-> FALSE]
Returned(manager, file, wrote) ==
    [threw |-> FALSE, message |-> "", path |-> ConfigPath,
     manager |-> manager, file |-> file, wrote |-> wrote]

\* loadConfig, lines 143-182
loadConfig(manager, file) ==
    IF manager.loaded THEN Returned(manager, file, FALSE)
    ELSE IF ~file.exists
    THEN Returned([manager EXCEPT !.loaded = TRUE, !.config = NewConfig],
                  saveConfig(NewConfig), TRUE)
    ELSE IF file.state = "unreadable"
    THEN Threw("Failed to read config file", manager, file)
    ELSE IF file.state = "garbage"
    THEN Threw("Config file contains invalid JSON", manager, file)
    ELSE IF ~validateConfig(file.doc).ok
    THEN Threw(validateConfig(file.doc).message, manager, file)
    ELSE Returned([manager EXCEPT !.loaded = TRUE, !.config = file.doc], file, FALSE)

\* this.saveConfig() after an operation changed the cached config.
Saved(manager, config) ==
    Returned([manager EXCEPT !.config = config], saveConfig(config), TRUE)

\* config.registryUrl || process.env.MPAK_REGISTRY_URL || default, line 201
getRegistryUrl(config, envUrl) ==
    IF config.registryUrl.kind = "string" /\ Truthy(config.registryUrl.s)
    THEN config.registryUrl.s
    ELSE IF envUrl.kind = "string" /\ Truthy(envUrl.s) THEN envUrl.s
    ELSE DefaultRegistryUrl

\* setRegistryUrl, lines 193-197
setRegistryUrl(config, url) == [config EXCEPT !.registryUrl = JString(url)]

\* getPackageConfigValue, lines 207-218
getPackageConfigValue(config, name, key) ==
    IF config.packagesKind = "undefined" \/ name \notin DOMAIN config.packages
    THEN JUndefined
    ELSE IF key \in DOMAIN config.packages[name].values
    THEN config.packages[name].values[key]
    ELSE IF key \in ObjectPrototypeKeys
    THEN [kind |-> "function", s |-> InheritedText(key)]
    ELSE JUndefined

\* setPackageConfigValue, lines 223-233, on the whole cached config
setValue(config, name, key, value) ==
    LET kind == IF config.packagesKind = "undefined" THEN "object"
                ELSE config.packagesKind
        old == IF name \in DOMAIN config.packages THEN config.packages[name]
               ELSE PackageEntry("object", NoValues)
        new == [old EXCEPT !.values =
                  [k \in DOMAIN old.values \cup {key} |->
                     IF k = key THEN JString(value) ELSE old.values[k]]]
    IN [config EXCEPT
          !.packagesKind = kind,
          !.packages = [n \in DOMAIN config.packages \cup {name} |->
                          IF n = name THEN new ELSE config.packages[n]]]

\* clearPackageConfig, lines 238-246: [found, config]
clearPackageConfig(config, name) ==
    IF config.packagesKind /= "undefined" /\ name \in DOMAIN config.packages
    THEN [found |-> TRUE,
          config |-> [config EXCEPT !.packages =
                        [n \in DOMAIN config.packages \ {name} |-> config.packages[n]]]]
    ELSE [found |-> FALSE, config |-> config]

\* clearPackageConfigValue, lines 251-263: [found, config]
clearPackageConfigValue(config, name, key) ==
    IF getPackageConfigValue(config, name, key).kind /= "undefined"
    THEN LET old == config.packages[name]
             left == [k \in DOMAIN old.values \ {key} |-> old.values[k]]
             names == IF DOMAIN left = {} THEN DOMAIN config.packages \ {name}
                      ELSE DOMAIN config.packages
         IN [found |-> TRUE,
             config |-> [config EXCEPT !.packages =
                           [n \in names |->
                              IF n = name THEN [old EXCEPT !.values = left]
                              ELSE config.packages[n]]]]
    ELSE [found |-> FALSE, config |-> config]

\* listPackagesWithConfig, lines 268-271
listPackagesWithConfig(config) ==
    IF config.packagesKind = "undefined" THEN {} ELSE DOMAIN config.packages

Managers == {"m1", "m2"}

(***************************************************************************)
(* Building the child (run.ts lines 380-433).                              *)
(***************************************************************************)
\* A path as an environment value.
PathValue(path) == [i \in 1..Len(path) |-> Lit(path[i])]

\* What findPythonCommand may return, depending on the host's python3 probe.
PythonCommands == { <<"python3">>, <<"python">> }

KnownTypes == {"binary", "node", "python"}

\* Mutant: an unknown type falls back to the node variant.
ServerVariant_DefaultsToNode(type) == IF type \in KnownTypes THEN type ELSE "node"

\* run.ts switch (type): the case taken; `default` throws.
ServerVariant(type) == IF type \in KnownTypes THEN type ELSE "unsupported"

\* Mutant: a chmod failure aborts the launch.
AfterChmod_Fatal(threw) == IF threw THEN "exit1" ELSE "spawn"

\* run.ts lines 394-398: chmodSync in a try with an empty catch.
AfterChmod(threw) == "spawn"

\* Mutant: the ambient PYTHONPATH is dropped.
PythonPath_DepsOnly(cacheDir, processEnv) == PathValue(join(cacheDir, <<"deps">>))

\* run.ts lines 426-427
PythonPath(cacheDir, processEnv) ==
    LET depsDir == PathValue(join(cacheDir, <<"deps">>)) IN
    IF <<"PYTHONPATH">> \in DOMAIN processEnv /\ Truthy(processEnv[<<"PYTHONPATH">>])
    THEN depsDir \o <<Lit(":")>> \o processEnv[<<"PYTHONPATH">>]
    ELSE depsDir

\* The command, args and env handed to spawn, for a known server type;
\* `probed` is what findPythonCommand returns on this host.
ChildOf(m, cacheDir, processEnv, userConfigValues, probed) ==
    LET substitutedEnv == substituteEnvVars(m.env, userConfigValues)
        env == MergeEnv(processEnv, substitutedEnv)
        scriptArgs == IF Len(m.args) > 0
                      THEN resolveArgs(m.args, cacheDir)
                      ELSE << join(cacheDir, m.entry_point) >>
        variant == ServerVariant(m.type)
    IN CASE variant = "binary" ->
              [command |-> join(cacheDir, m.entry_point),
               args |-> resolveArgs(m.args, cacheDir),
               env |-> env]
         [] variant = "node" ->
              [command |-> IF Truthy(m.command) THEN m.command ELSE <<"node">>,
               args |-> scriptArgs,
               env |-> env]
         [] variant = "python" ->
              [command |-> IF m.command = <<"python">> THEN probed
                           ELSE IF Truthy(m.command) THEN m.command ELSE probed,
               args |-> scriptArgs,
               env |-> Spread(env, <<"PYTHONPATH">> :> PythonPath(cacheDir, processEnv))]

(***************************************************************************)
(* State.                                                                  *)
(***************************************************************************)
VARIABLES
    cache,       \* cache directory -> [exists, meta, files]
    configFile,  \* ~/.mpak/config.json: [exists, packages]
    run,         \* invocation -> its inputs, locals and position
    prev,        \* summary of the invocation that finished last
    call,        \* the last call of an exported helper made on its own
    mgr,         \* ConfigManager instance -> [loaded, config, calls]
    valuesSet    \* <<package, key>> -> the value last set and not cleared since

vars == <<cache, configFile, run, prev, call, mgr, valuesSet>>

NoManifest ==
    [type |-> "", entry_point |-> << >>, command |-> << >>, args |-> << >>,
     env |-> EmptyMap, user_config |-> << >>]
NoChild == [command |-> << >>, args |-> << >>, env |-> EmptyMap]
NoRequest == [hasVersion |-> FALSE, version |-> << >>]
NoCode == [isNull |-> TRUE, n |-> 0]

IdleRun ==
    [pc |-> "idle",
     name |-> << >>, requested |-> NoRequest, update |-> FALSE,
     isTTY |-> FALSE, processEnv |-> EmptyMap,
     cacheDir |-> << >>, cachedMeta |-> Null, needsPull |-> FALSE,
     resolved |-> FALSE, bundleVersion |-> << >>,
     registryCalls |-> 0, downloads |-> 0, removals |-> 0,
     extractions |-> 0, metaWrites |-> 0,
     startCache |-> EmptyCache, startConfig |-> NoPackages,
     failedAt |-> "",
     manifest |-> NoManifest,
     gathered |-> FALSE, cfgPackages |-> NoPackages, storedConfig |-> EmptyMap,
     userConfigValues |-> EmptyMap, missingRequired |-> << >>,
     prompted |-> << >>, configWrites |-> 0, saveLog |-> << >>,
     substitutedEnv |-> EmptyMap,
     child |-> NoChild, spawns |-> 0, listeners |-> {},
     received |-> << >>, childSignals |-> << >>,
     childEvent |-> "none", childCode |-> NoCode,
     exitCode |-> 0]

NoPrev == [freshPull |-> FALSE, version |-> << >>]
NoCall == [fn |-> "none"]

\* A cache directory left by an earlier installation whose metadata file is
\* damaged: truncated, or valid JSON without a version.
InitialCaches ==
    { EmptyCache,
      [exists |-> TRUE, meta |-> MetaUnparseable, files |-> BundleFiles(<<"1.0.0">>)],
      [exists |-> TRUE, meta |-> MetaNoVersion, files |-> BundleFiles(<<"1.0.0">>)],
      FullCache(WithdrawnVersion) }

Init ==
    /\ cache \in [CacheDirs -> InitialCaches]
    /\ configFile \in InitialConfigFiles
    /\ run = [p \in Procs |-> IdleRun]
    /\ prev = NoPrev
    /\ call = NoCall
    /\ mgr = [m \in Managers |-> NewManager]
    /\ valuesSet = EmptyMap

\* Mutant: a failure is recorded and the failed step is tried again.
Exit1_TriesAgain(r, step) == [r EXCEPT !.exitCode = 1, !.failedAt = step]

\* A throw that reaches main().catch(handleError), or process.exit(1).
Exit1(r, step) == [r EXCEPT !.pc = "exited", !.exitCode = 1, !.failedAt = step]

PullPcs == {"resolve", "download", "remove", "extract", "writemeta"}

\* Mutant: the old cache is removed before the download.
StepAfter_RemoveFirst(step) ==
    CASE step = "resolve" -> "remove"
      [] step = "remove" -> "download"
      [] step = "download" -> "extract"
      [] step = "extract" -> "writemeta"
      [] step = "writemeta" -> "manifest"

\* run.ts lines 330-360: the order of the pull's statements.
StepAfter(step) ==
    CASE step = "resolve" -> "download"
      [] step = "download" -> "remove"
      [] step = "remove" -> "extract"
      [] step = "extract" -> "writemeta"
      [] step = "writemeta" -> "manifest"

(***************************************************************************)
(* handleRun, up to its first await: parse, look at the cache, decide.     *)
(***************************************************************************)
Begin(p, spec, update, isTTY, processEnv) ==
    LET parsed == parsePackageSpec(spec)
        dir == getCacheDir(parsed.name)
        cachedMeta == getCacheMetadata(cache[dir])
        needsPull == NeedsPull(cachedMeta,
                               [hasVersion |-> parsed.hasVersion, version |-> parsed.version],
                               update)
    IN run' = [run EXCEPT ![p] =
                 [IdleRun EXCEPT
                    !.pc = IF needsPull THEN "resolve" ELSE "manifest",
                    !.name = parsed.name,
                    !.requested = [hasVersion |-> parsed.hasVersion,
                                   version |-> parsed.version],
                    !.update = update, !.isTTY = isTTY, !.processEnv = processEnv,
                    !.cacheDir = dir, !.cachedMeta = cachedMeta,
                    !.needsPull = needsPull,
                    !.startCache = cache[dir],
                    !.startConfig = configFile.packages]]

\* One invocation at a time.
Start(p) ==
    /\ \A q \in Procs : run[q].pc = "idle"
    /\ \E spec \in PackageSpecs, update \in BOOLEAN, isTTY \in BOOLEAN,
          processEnv \in AmbientEnvs :
          Begin(p, spec, update, isTTY, processEnv)
    /\ UNCHANGED <<cache, configFile, prev, call, mgr, valuesSet>>

\* await client.getDownloadInfo(...), then lines 333-336.
Resolve(p) ==
    /\ run[p].pc = "resolve"
    /\ \/ run' = [run EXCEPT ![p] =
                    Exit1([@ EXCEPT !.registryCalls = @ + 1], "resolve")]
       \/ \E v \in ResolveSet(run[p].requested) :
            LET still == StillNeedsPull(run[p].cachedMeta, v, run[p].update) IN
            run' = [run EXCEPT ![p] =
                      [@ EXCEPT !.registryCalls = @ + 1,
                                !.resolved = TRUE,
                                !.bundleVersion = v,
                                !.needsPull = still,
                                !.pc = IF still THEN StepAfter("resolve") ELSE "manifest"]]
    /\ UNCHANGED <<cache, configFile, prev, call, mgr, valuesSet>>

\* await client.downloadBundle(url, tempPath)
Download(p) ==
    /\ run[p].pc = "download"
    /\ \/ run' = [run EXCEPT ![p] = Exit1([@ EXCEPT !.downloads = @ + 1], "download")]
       \/ run' = [run EXCEPT ![p] = [@ EXCEPT !.downloads = @ + 1, !.pc = StepAfter("download")]]
    /\ UNCHANGED <<cache, configFile, prev, call, mgr, valuesSet>>

\* What a failed rmSync(cacheDir, {recursive, force}) may leave: any of the
\* entries it had not yet removed, at least one.
Entries(c) ==
    { f \in FileNames : c.files[f] /= NoFile }
      \cup (IF c.meta.kind /= "absent" THEN {".mpak-meta.json"} ELSE {})
Keep(c, kept) ==
    [exists |-> TRUE,
     meta |-> IF ".mpak-meta.json" \in kept THEN c.meta ELSE MetaAbsent,
     files |-> [f \in FileNames |-> IF f \in kept THEN c.files[f] ELSE NoFile]]

\* lines 347-351: rmSync the old directory if there is one, mkdirSync a new one.
Remove(p) ==
    /\ run[p].pc = "remove"
    /\ LET dir == run[p].cacheDir
           c == cache[dir]
       IN \/ /\ cache' = [cache EXCEPT ![dir] =
                            [exists |-> TRUE, meta |-> MetaAbsent, files |-> NoFiles]]
             /\ run' = [run EXCEPT ![p] =
                          [@ EXCEPT !.removals = IF c.exists THEN @ + 1 ELSE @,
                                    !.pc = StepAfter("remove")]]
          \/ /\ c.exists
             /\ \E kept \in (SUBSET Entries(c)) \ {{}} :
                  cache' = [cache EXCEPT ![dir] = Keep(c, kept)]
             /\ run' = [run EXCEPT ![p] = Exit1([@ EXCEPT !.removals = @ + 1], "remove")]
    /\ UNCHANGED <<configFile, prev, call, mgr, valuesSet>>

\* unzip -o: every file of the archive written so far overwrites its namesake.
Unzip(c, v, written) ==
    [c EXCEPT !.exists = TRUE,
              !.files = [f \in FileNames |-> IF f \in written THEN v ELSE c.files[f]]]

\* await extractZip(tempPath, cacheDir): all files, or a failure part-way.
Extract(p) ==
    /\ run[p].pc = "extract"
    /\ LET dir == run[p].cacheDir
           v == run[p].bundleVersion
       IN \/ /\ cache' = [cache EXCEPT ![dir] = Unzip(cache[dir], v, BundleNames(v))]
             /\ run' = [run EXCEPT ![p] =
                          [@ EXCEPT !.extractions = @ + 1, !.pc = StepAfter("extract")]]
          \/ /\ \E written \in (SUBSET BundleNames(v)) \ {BundleNames(v)} :
                  cache' = [cache EXCEPT ![dir] = Unzip(cache[dir], v, written)]
             /\ run' = [run EXCEPT ![p] =
                          Exit1([@ EXCEPT !.extractions = @ + 1], "extract")]
    /\ UNCHANGED <<configFile, prev, call, mgr, valuesSet>>

\* writeCacheMetadata, then the temp file's removal: the file written whole, or
\* a failed writeFileSync that left it untouched or truncated.
WriteMeta(p) ==
    /\ run[p].pc = "writemeta"
    /\ LET dir == run[p].cacheDir IN
       \/ /\ cache' = [cache EXCEPT ![dir].meta = writeCacheMetadata(run[p].bundleVersion)]
          /\ run' = [run EXCEPT ![p] =
                       [@ EXCEPT !.metaWrites = @ + 1, !.pc = StepAfter("writemeta")]]
       \/ /\ \E m \in {cache[dir].meta, MetaUnparseable} :
               cache' = [cache EXCEPT ![dir].meta = m]
          /\ run' = [run EXCEPT ![p] = Exit1(@, "writemeta")]
    /\ UNCHANGED <<configFile, prev, call, mgr, valuesSet>>

\* run.ts readManifest: the manifest of the extracted bundle, if it is there.
HasManifest(c) == c.files["manifest.json"] /= NoFile
readManifest(c) == ManifestOf(c.files["manifest.json"])

\* ConfigManager.loadConfig on a missing file creates it, with no packages.
LoadedFile(file) == IF file.exists THEN file ELSE [exists |-> TRUE, packages |-> NoPackages]

\* lines 369-378 and gatherUserConfigValues up to its first prompt.
Prepare(p) ==
    /\ run[p].pc = "manifest"
    /\ LET c == cache[run[p].cacheDir]
           m == readManifest(c)
           cfg == LoadedFile(configFile).packages
           stored == getPackageConfig(cfg, run[p].name)
           missing == MissingRequired(m.user_config, stored, run[p].processEnv)
           next == AfterGather(missing, run[p].isTTY)
           gatheredRun ==
               [run[p] EXCEPT
                  !.manifest = m, !.gathered = TRUE, !.cfgPackages = cfg,
                  !.storedConfig = stored,
                  !.userConfigValues =
                      ResolvedValues(m.user_config, stored, run[p].processEnv),
                  !.missingRequired = missing]
       IN IF ~HasManifest(c)
          THEN /\ run' = [run EXCEPT ![p] = Exit1(@, "manifest")]
               /\ UNCHANGED configFile
          ELSE IF Len(m.user_config) = 0
          THEN /\ run' = [run EXCEPT ![p] = [@ EXCEPT !.manifest = m, !.pc = "launch"]]
               /\ UNCHANGED configFile
          ELSE /\ configFile' = LoadedFile(configFile)
               /\ run' = [run EXCEPT ![p] =
                            IF next = "exit1" THEN Exit1(gatheredRun, "gather")
                            ELSE [gatheredRun EXCEPT !.pc = next]]
    /\ UNCHANGED <<cache, prev, call, mgr, valuesSet>>

\* The field being prompted for: the first of missingRequired not yet asked.
CurrentKey(r) == r.missingRequired[Len(r.prompted) + 1]

\* lines 258-263: one prompt and its answer.
Prompt(p) ==
    /\ run[p].pc = "prompt"
    /\ \E answer \in PromptAnswers :
         LET key == CurrentKey(run[p])
             field == FieldOf(run[p].manifest.user_config, key)
             value == promptForValue(field, answer)
             asked == [run[p] EXCEPT !.prompted = Append(@, key)]
             accepted ==
                 [asked EXCEPT
                    !.userConfigValues =
                        [k \in DOMAIN @ \cup {key} |-> IF k = key THEN value ELSE @[k]]]
         IN run' = [run EXCEPT ![p] =
                      IF AfterAnswer(value, field) = "exit1"
                      THEN Exit1(asked, "prompt")
                      ELSE IF Truthy(value)
                      THEN [accepted EXCEPT !.pc = "save"]
                      ELSE [accepted EXCEPT
                              !.pc = IF Len(asked.prompted) < Len(asked.missingRequired)
                                     THEN "prompt" ELSE "launch"]]
    /\ UNCHANGED <<cache, configFile, prev, call, mgr, valuesSet>>

\* lines 266-282: the "save for future runs?" question for the value just typed.
Save(p) ==
    /\ run[p].pc = "save"
    /\ \E answer \in SaveAnswers :
         LET r == run[p]
             key == r.prompted[Len(r.prompted)]
             saved == setPackageConfigValue(r.cfgPackages, r.name, key,
                                            r.userConfigValues[key])
             nextPc == IF Len(r.prompted) < Len(r.missingRequired)
                       THEN "prompt" ELSE "launch"
             entry(after) == [key |-> key, value |-> r.userConfigValues[key],
                              answer |-> answer, asked |-> Len(r.prompted),
                              before |-> configFile.packages, after |-> after]
         IN IF WantsSave(answer)
            THEN /\ configFile' = [exists |-> TRUE, packages |-> saved]
                 /\ run' = [run EXCEPT ![p] =
                              [@ EXCEPT !.cfgPackages = saved,
                                        !.configWrites = @ + 1,
                                        !.saveLog = Append(@, entry(saved)),
                                        !.pc = nextPc]]
            ELSE /\ run' = [run EXCEPT ![p] =
                              [@ EXCEPT !.saveLog = Append(@, entry(configFile.packages)),
                                        !.pc = nextPc]]
                 /\ UNCHANGED configFile
    /\ UNCHANGED <<cache, prev, call, mgr, valuesSet>>

\* The termination signals an operator or a supervisor sends to the parent.
Signals == {"SIGINT", "SIGTERM"}
MaxSignals == 1

\* run.ts lines 443-444: the signals the parent listens for after the spawn.
Listeners == {"SIGINT", "SIGTERM"}

\* Mutant: no listener is installed, every signal has its default effect.
OnSignal_NoListener(listeners, sig) == "die"

\* A signal with a listener runs it (child.kill(sig)); one without ends the
\* process, its default disposition.
OnSignal(listeners, sig) == IF sig \in listeners THEN "forward" ELSE "die"

\* The exit status of a process ended by a signal, as its parent shell sees it.
KilledStatus(sig) == IF sig = "SIGINT" THEN 130 ELSE 143

\* lines 380-444: substitute, merge the environment, pick the command, spawn,
\* install the signal listeners.
Launch(p) ==
    /\ run[p].pc = "launch"
    /\ \E probed \in PythonCommands, chmodThrew \in BOOLEAN :
         LET r == run[p] IN
         run' = [run EXCEPT ![p] =
                   IF ServerVariant(r.manifest.type) = "unsupported"
                   THEN Exit1([@ EXCEPT !.substitutedEnv =
                                 substituteEnvVars(r.manifest.env, r.userConfigValues)],
                              "type")
                   ELSE IF ServerVariant(r.manifest.type) = "binary"
                           /\ AfterChmod(chmodThrew) = "exit1"
                   THEN Exit1([@ EXCEPT !.substitutedEnv =
                                 substituteEnvVars(r.manifest.env, r.userConfigValues)],
                              "chmod")
                   ELSE [@ EXCEPT
                           !.substitutedEnv =
                               substituteEnvVars(r.manifest.env, r.userConfigValues),
                           !.child = ChildOf(r.manifest, r.cacheDir, r.processEnv,
                                             r.userConfigValues, probed),
                           !.spawns = @ + 1,
                           !.listeners = Listeners,
                           !.pc = "running"]]
    /\ UNCHANGED <<cache, configFile, prev, call, mgr, valuesSet>>

\* A SIGINT or SIGTERM reaches the parent while the child runs.
Signal(p) ==
    /\ run[p].pc = "running"
    /\ Len(run[p].received) < MaxSignals
    /\ \E sig \in Signals :
         run' = [run EXCEPT ![p] =
                   IF OnSignal(run[p].listeners, sig) = "forward"
                   THEN [@ EXCEPT !.received = Append(@, sig),
                                  !.childSignals = Append(@, sig)]
                   ELSE [@ EXCEPT !.received = Append(@, sig),
                                  !.pc = "exited",
                                  !.exitCode = KilledStatus(sig),
                                  !.failedAt = "signal"]]
    /\ UNCHANGED <<cache, configFile, prev, call, mgr, valuesSet>>

\* Mutant: an indeterminate code is reported as a failure.
ExitStatus_NullIsFailure(code) == IF code.isNull THEN 1 ELSE code.n

\* code ?? 0
ExitStatus(code) == IF code.isNull THEN 0 ELSE code.n

\* child.on('exit', code => process.exit(code ?? 0))
ChildExit(p) ==
    /\ run[p].pc = "running"
    /\ \E code \in ChildCodes :
         run' = [run EXCEPT ![p] =
                   [@ EXCEPT !.pc = "exited", !.childEvent = "exit",
                             !.childCode = code, !.exitCode = ExitStatus(code)]]
    /\ UNCHANGED <<cache, configFile, prev, call, mgr, valuesSet>>

\* child.on('error', ...): the spawn failed; process.exit(1)
ChildError(p) ==
    /\ run[p].pc = "running"
    /\ run' = [run EXCEPT ![p] = Exit1([@ EXCEPT !.childEvent = "error"], "spawn")]
    /\ UNCHANGED <<cache, configFile, prev, call, mgr, valuesSet>>

\* Whether the invocation pulled a bundle into an empty cache with no version
\* requested, and got through the pull.
FreshPull(r) ==
    /\ r.startCache = EmptyCache
    /\ ~r.requested.hasVersion
    /\ r.metaWrites = 1

\* The process is gone; the next invocation may start.
Reap(p) ==
    /\ run[p].pc = "exited"
    /\ prev' = [freshPull |-> FreshPull(run[p]),
                version |-> IF FreshPull(run[p]) THEN run[p].bundleVersion ELSE << >>]
    /\ run' = [run EXCEPT ![p] = IdleRun]
    /\ UNCHANGED <<cache, configFile, call, mgr, valuesSet>>

Next ==
    \E p \in Procs :
       \/ Start(p)
       \/ Resolve(p)
       \/ Download(p)
       \/ Remove(p)
       \/ Extract(p)
       \/ WriteMeta(p)
       \/ Prepare(p)
       \/ Prompt(p)
       \/ Save(p)
       \/ Launch(p)
       \/ Signal(p)
       \/ ChildExit(p)
       \/ ChildError(p)
       \/ Reap(p)

Spec == Init /\ [][Next]_vars

(***************************************************************************)
(* The exported helpers called on their own, as run.test.ts calls them:    *)
(* their inputs are character sequences (one chunk per character) and      *)
(* token sequences drawn from small sets.                                  *)
(***************************************************************************)
SeqsUpTo(S, n) == UNION { [1..k -> S] : k \in 0..n }

MaxSpecLen == 3
MaxVersionLen == 3
MaxPartLen == 3
MaxTokens == 2

NameInputs ==
    { <<"@", "a", "/", "b">>, <<"@", "a", "/", "b", "/", "c">>,
      <<"a">>, <<"a", "-", "b">> }
SpecInputs ==
    SeqsUpTo({"@", "/", "a", "1", "-", "+"}, MaxSpecLen)
      \cup { n \o <<"@">> \o x : n \in NameInputs, x \in SeqsUpTo({"1", "-", "+", "@"}, MaxVersionLen) }
      \cup NameInputs

\* Scopes and names: letters and inner hyphens.
Parts ==
    { s \in SeqsUpTo({"a", "b", "-"}, MaxPartLen) :
        s /= << >> /\ s[1] /= "-" /\ s[Len(s)] /= "-" }
ScopedNames == { <<"@">> \o scope \o <<"/">> \o name : scope \in Parts, name \in Parts }

ValueInputs ==
    SeqsUpTo({ Lit("x="), Lit("${__dirname}"), Ref("k"), Ref("j"), Ref("constructor") },
             MaxTokens)
MapKeys == {"k", "j"}
MapValues == { EmptyStr, <<Lit("v")>>, <<Ref("j")>> }
MapInputs == UNION { [ks -> MapValues] : ks \in SUBSET MapKeys }

InitFn ==
    /\ cache = [d \in CacheDirs |-> EmptyCache]
    /\ configFile = [exists |-> FALSE, packages |-> NoPackages]
    /\ run = [p \in Procs |-> IdleRun]
    /\ prev = NoPrev
    /\ call = NoCall
    /\ mgr = [m \in Managers |-> NewManager]
    /\ valuesSet = EmptyMap

CallParsePackageSpec ==
    /\ call = NoCall
    /\ \E spec \in SpecInputs :
         call' = [fn |-> "parsePackageSpec", arg |-> spec, out |-> parsePackageSpec(spec)]
    /\ UNCHANGED <<cache, configFile, run, prev, mgr, valuesSet>>

CallGetCacheDir ==
    /\ call = NoCall
    /\ \E packageName \in ScopedNames :
         call' = [fn |-> "getCacheDir", arg |-> packageName,
                  out |-> getCacheDir(packageName)]
    /\ UNCHANGED <<cache, configFile, run, prev, mgr, valuesSet>>

CallSubstituteUserConfig ==
    /\ call = NoCall
    /\ \E value \in ValueInputs, userConfigValues \in MapInputs :
         call' = [fn |-> "substituteUserConfig", arg |-> value,
                  map |-> userConfigValues,
                  out |-> substituteUserConfig(value, userConfigValues)]
    /\ UNCHANGED <<cache, configFile, run, prev, mgr, valuesSet>>

\* Manifests and ambient environments for the launch construction.
LaunchAmbientEnvs ==
    { EmptyMap,
      <<"PYTHONPATH">> :> EmptyStr,
      <<"PYTHONPATH">> :> <<Lit("/usr/lib/py")>> }
LaunchManifests ==
    { [type |-> t, entry_point |-> <<"server">>, command |-> c, args |-> a,
       env |-> e, user_config |-> << >>] :
        t \in KnownTypes,
        c \in { << >>, <<"python">>, <<"custom-runtime">> },
        a \in { << >>,
                << <<DirMarker, "/main.js">> >>,
                << <<"--root=", DirMarker, ":", DirMarker>>, <<"--verbose">> >> },
        e \in { EmptyMap, <<"PYTHONPATH">> :> <<Lit("/bundle/lib")>> } }

\* run.ts lines 381-440 on their own: the switch and the spawn.
CallLaunch ==
    /\ call = NoCall
    /\ \E m \in LaunchManifests, processEnv \in LaunchAmbientEnvs,
          probed \in PythonCommands, chmodThrew \in BOOLEAN :
         LET cacheDir == getCacheDir(ThePackage) IN
         call' = [fn |-> "launch", arg |-> m, cacheDir |-> cacheDir,
                  processEnv |-> processEnv, chmodThrew |-> chmodThrew,
                  spawned |-> (ServerVariant(m.type) = "binary"
                                 => AfterChmod(chmodThrew) = "spawn"),
                  out |-> ChildOf(m, cacheDir, processEnv, EmptyMap, probed)]
    /\ UNCHANGED <<cache, configFile, run, prev, mgr, valuesSet>>

NextFn ==
    \/ CallParsePackageSpec
    \/ CallGetCacheDir
    \/ CallSubstituteUserConfig
    \/ CallLaunch

SpecFn == InitFn /\ [][NextFn]_vars

(***************************************************************************)
(* ConfigManager instances sharing ~/.mpak/config.json.  Here configFile   *)
(* holds the file itself, [exists, state, doc], and every public method is *)
(* one action: its loadConfig, its change and its saveConfig.              *)
(***************************************************************************)
MaxCalls == 2

OtherPackage == <<"@", "acme", "/", "other">>
ConfigPackageNames == {ThePackage, OtherPackage}
ConfigKeys == {"api_key", "token"}
StoredUrl == <<"https://stored.example">>
EnvUrl == <<"https://env.example">>
UrlSettings(url) == { JUndefined, JString(EmptyStr), JString(url) }

StoredEntry(keys) == PackageEntry("object", [k \in keys |-> JString(<<Lit("v0")>>)])

\* Files that follow the schema.
SchemaConfigs ==
    { ConfigOf(url, "undefined", NoEntries) : url \in UrlSettings(StoredUrl) }
      \cup { ConfigOf(JUndefined, "object", entries) :
               entries \in { NoEntries,
                             ThePackage :> StoredEntry({"api_key"}),
                             ThePackage :> StoredEntry(ConfigKeys),
                             (ThePackage :> StoredEntry({"api_key"}))
                                @@ (OtherPackage :> StoredEntry({"api_key"})) } }

\* A file with stored data, and the same file with one defect each.
StoredConfig == ConfigOf(JString(StoredUrl), "object", ThePackage :> StoredEntry({"api_key"}))
OffSchemaConfigs ==
    { ScalarConfig(kind) : kind \in {"null", "array", "string", "number"} }
      \cup { [StoredConfig EXCEPT !.version = kind] : kind \in {"undefined", "number"} }
      \cup { [StoredConfig EXCEPT !.lastUpdated = kind] : kind \in {"undefined", "number"} }
      \cup { [StoredConfig EXCEPT !.registryUrl = x] : x \in { [JUndefined EXCEPT !.kind = kind] : kind \in {"null", "number"} } }
      \cup { [StoredConfig EXCEPT !.packagesKind = kind, !.packages = NoEntries] :
               kind \in {"null", "string", "number", "array"} }
      \cup { [StoredConfig EXCEPT !.packages = ThePackage :> PackageEntry(kind, NoValues)] :
               kind \in {"null", "string", "array"} }
      \cup { [StoredConfig EXCEPT !.packages = ThePackage :> StoredEntry({})],
             [StoredConfig EXCEPT !.packages =
                 ThePackage :> PackageEntry("object", "api_key" :> [JUndefined EXCEPT !.kind = "number"])],
             [StoredConfig EXCEPT !.extra = TRUE] }

InitialConfigTexts ==
    { MissingConfigFile,
      ConfigFileOf("unreadable", StoredConfig),
      ConfigFileOf("garbage", StoredConfig) }
      \cup { ConfigFileOf("json", doc) : doc \in SchemaConfigs \cup OffSchemaConfigs }

InitConfig ==
    /\ cache = [d \in CacheDirs |-> EmptyCache]
    /\ configFile \in InitialConfigTexts
    /\ run = [p \in Procs |-> IdleRun]
    /\ prev = NoPrev
    /\ call = NoCall
    /\ mgr = [m \in Managers |-> NewManager]
    /\ valuesSet = EmptyMap

\* The method's outcome after its loadConfig: a throw of loadConfig ends it.
Then(L, R) == IF L.threw THEN L ELSE [R EXCEPT !.wrote = L.wrote \/ R.wrote]

\* The manager and the file after a method; each manager makes MaxCalls calls.
Finish(m, R) ==
    /\ mgr' = [mgr EXCEPT ![m] = [R.manager EXCEPT !.calls = @ + 1]]
    /\ configFile' = R.file

Outcome(fn, m, R) ==
    [fn |-> fn, m |-> m, threw |-> R.threw, message |-> R.message,
     path |-> R.path, wrote |-> R.wrote]

LoadConfig(m) ==
    /\ mgr[m].calls < MaxCalls
    /\ LET L == loadConfig(mgr[m], configFile) IN
         /\ Finish(m, L)
         /\ call' = Outcome("loadConfig", m, L)
    /\ UNCHANGED <<cache, run, prev, valuesSet>>

GetRegistryUrl(m) ==
    /\ mgr[m].calls < MaxCalls
    /\ \E envUrl \in UrlSettings(EnvUrl) :
         LET L == loadConfig(mgr[m], configFile) IN
         /\ Finish(m, L)
         /\ call' = Outcome("getRegistryUrl", m, L) @@
                      [env |-> envUrl, stored |-> L.manager.config.registryUrl,
                       out |-> getRegistryUrl(L.manager.config, envUrl)]
    /\ UNCHANGED <<cache, run, prev, valuesSet>>

SetRegistryUrl(m) ==
    /\ mgr[m].calls < MaxCalls
    /\ LET L == loadConfig(mgr[m], configFile)
           R == Then(L, Saved(L.manager, setRegistryUrl(L.manager.config, StoredUrl)))
       IN /\ Finish(m, R)
          /\ call' = Outcome("setRegistryUrl", m, R)
    /\ UNCHANGED <<cache, run, prev, valuesSet>>

GetPackageConfigValue(m) ==
    /\ mgr[m].calls < MaxCalls
    /\ \E name \in ConfigPackageNames, key \in ConfigKeys :
         LET L == loadConfig(mgr[m], configFile) IN
         /\ Finish(m, L)
         /\ call' = Outcome("getPackageConfigValue", m, L) @@
                      [name |-> name, key |-> key,
                       out |-> getPackageConfigValue(L.manager.config, name, key)]
    /\ UNCHANGED <<cache, run, prev, valuesSet>>

SetPackageConfigValue(m) ==
    /\ mgr[m].calls < MaxCalls
    /\ \E name \in ConfigPackageNames, key \in ConfigKeys, value \in { <<Lit("v1")>> } :
         LET L == loadConfig(mgr[m], configFile)
             R == Then(L, Saved(L.manager, setValue(L.manager.config, name, key, value)))
         IN /\ Finish(m, R)
            /\ call' = Outcome("setPackageConfigValue", m, R) @@
                         [name |-> name, key |-> key, value |-> value]
            /\ valuesSet' =
                 IF R.threw THEN valuesSet
                 ELSE [x \in DOMAIN valuesSet \cup {<<name, key>>} |->
                         IF x = <<name, key>> THEN value ELSE valuesSet[x]]
    /\ UNCHANGED <<cache, run, prev>>

ClearPackageConfig(m) ==
    /\ mgr[m].calls < MaxCalls
    /\ \E name \in ConfigPackageNames :
         LET L == loadConfig(mgr[m], configFile)
             c == clearPackageConfig(L.manager.config, name)
             R == Then(L, IF c.found THEN Saved(L.manager, c.config)
                          ELSE Returned(L.manager, L.file, FALSE))
         IN /\ Finish(m, R)
            /\ call' = Outcome("clearPackageConfig", m, R) @@
                         [name |-> name, out |-> c.found, created |-> L.wrote,
                          before |-> L.manager.config.packages]
            /\ valuesSet' =
                 IF R.threw THEN valuesSet
                 ELSE [x \in { y \in DOMAIN valuesSet : y[1] /= name } |-> valuesSet[x]]
    /\ UNCHANGED <<cache, run, prev>>

ClearPackageConfigValue(m) ==
    /\ mgr[m].calls < MaxCalls
    /\ \E name \in ConfigPackageNames, key \in ConfigKeys \cup {"constructor"} :
         LET L == loadConfig(mgr[m], configFile)
             c == clearPackageConfigValue(L.manager.config, name, key)
             R == Then(L, IF c.found THEN Saved(L.manager, c.config)
                          ELSE Returned(L.manager, L.file, FALSE))
         IN /\ Finish(m, R)
            /\ call' = Outcome("clearPackageConfigValue", m, R) @@
                         [name |-> name, key |-> key, out |-> c.found,
                          created |-> L.wrote,
                          before |-> L.manager.config.packages]
            /\ valuesSet' =
                 IF R.threw THEN valuesSet
                 ELSE [x \in DOMAIN valuesSet \ {<<name, key>>} |-> valuesSet[x]]
    /\ UNCHANGED <<cache, run, prev>>

ListPackagesWithConfig(m) ==
    /\ mgr[m].calls < MaxCalls
    /\ LET L == loadConfig(mgr[m], configFile) IN
         /\ Finish(m, L)
         /\ call' = Outcome("listPackagesWithConfig", m, L) @@
                      [out |-> listPackagesWithConfig(L.manager.config)]
    /\ UNCHANGED <<cache, run, prev, valuesSet>>

NextConfig ==
    \E m \in Managers :
       \/ LoadConfig(m)
       \/ GetRegistryUrl(m)
       \/ SetRegistryUrl(m)
       \/ GetPackageConfigValue(m)
       \/ SetPackageConfigValue(m)
       \/ ClearPackageConfig(m)
       \/ ClearPackageConfigValue(m)
       \/ ListPackagesWithConfig(m)

SpecConfig == InitConfig /\ [][NextConfig]_vars

(***************************************************************************)
(* Overlapping invocations for one package: each process runs handleRun's  *)
(* pull, and nothing in run.ts makes one wait for another.                 *)
(***************************************************************************)
\* Mutant: an invocation waits while another is in its pull.
CanStart_Serialised(p) ==
    run[p].pc = "idle" /\ \A q \in Procs \ {p} : run[q].pc \notin PullPcs

\* run.ts lines 305-366 take no lock: a process starts whatever others do.
CanStart(p) == run[p].pc = "idle"

InitRace ==
    /\ cache \in [CacheDirs -> { EmptyCache, FullCache(<<"1.0.0">>) }]
    /\ configFile = [exists |-> FALSE, packages |-> NoPackages]
    /\ run = [p \in Procs |-> IdleRun]
    /\ prev = NoPrev
    /\ call = NoCall
    /\ mgr = [m \in Managers |-> NewManager]
    /\ valuesSet = EmptyMap

StartOverlapping(p) ==
    /\ CanStart(p)
    /\ \E spec \in PackageSpecs, update \in BOOLEAN :
          Begin(p, spec, update, FALSE, EmptyMap)
    /\ UNCHANGED <<cache, configFile, prev, call, mgr, valuesSet>>

NextRace ==
    \E p \in Procs :
       \/ StartOverlapping(p)
       \/ Resolve(p)
       \/ Download(p)
       \/ Remove(p)
       \/ Extract(p)
       \/ WriteMeta(p)

SpecRace == InitRace /\ [][NextRace]_vars

(***************************************************************************)
(* Properties.                                                             *)
(***************************************************************************)
Active == { p \in Procs : run[p].pc /= "idle" }

\* The version a run asked for, if it asked for one.
Requested(r) == r.requested.hasVersion /\ Truthy(r.requested.version)

\* The metadata file the run found is readable / records version v.
StartReadable(r) == r.startCache.meta.kind \in {"valid", "noversion"}
StartVersionIs(r, v) == r.startCache.meta = MetaValid(v)

\* The run got through the pull steps (or never entered them).
PastPull(r) == r.pc \notin PullPcs /\ r.failedAt \notin PullPcs

\* C1: handleRun contacts the registry (one getDownloadInfo call) if and only
\* if no cache metadata is readable, or the update flag is set, or a version
\* was requested that differs from the version in the cache metadata.
C1_MustContact(r) ==
    \/ ~StartReadable(r)
    \/ r.update
    \/ (Requested(r) /\ ~StartVersionIs(r, r.requested.version))
C1_RegistryContactedIff ==
    \A p \in Active :
       /\ run[p].registryCalls <= 1
       /\ run[p].pc = "resolve" => C1_MustContact(run[p])
       /\ run[p].pc /= "resolve" => (run[p].registryCalls = 1 <=> C1_MustContact(run[p]))

\* C1's cases: cached 1.0.0 and requested 1.0.0 without update launched with no
\* registry call.
C1_Witness ==
    \E p \in Active :
       /\ StartVersionIs(run[p], <<"1.0.0">>)
       /\ run[p].requested = [hasVersion |-> TRUE, version |-> <<"1.0.0">>]
       /\ ~run[p].update
       /\ run[p].pc = "running"
       /\ run[p].registryCalls = 0

\* C2: from an empty cache, a run with no requested version for which the
\* registry resolves V leaves the whole bundle V with metadata V; the run right
\* after it, with no requested version and no update flag, makes no registry
\* and no download call and leaves the cache as it found it.
C2_FreshPullThenCached ==
    \A p \in Active :
       LET r == run[p] IN
       /\ (r.startCache = EmptyCache /\ ~r.requested.hasVersion /\ PastPull(r)) =>
             /\ r.registryCalls = 1 /\ r.downloads = 1
             /\ r.extractions = 1 /\ r.metaWrites = 1
             /\ r.bundleVersion \in Versions
             /\ cache[r.cacheDir] = FullCache(r.bundleVersion)
       /\ (prev.freshPull /\ ~r.requested.hasVersion /\ ~r.update) =>
             /\ r.startCache = FullCache(prev.version)
             /\ r.registryCalls = 0 /\ r.downloads = 0
             /\ r.removals = 0 /\ r.extractions = 0 /\ r.metaWrites = 0
             /\ cache[r.cacheDir] = r.startCache

\* The second run of C2, launched.
C2_Witness ==
    \E p \in Active :
       /\ prev.freshPull /\ prev.version = <<"2.0.0">>
       /\ ~run[p].requested.hasVersion /\ ~run[p].update
       /\ run[p].pc = "running"

\* C3: whenever the metadata file exists (and records a version), the cache
\* directory holds exactly the whole bundle of that version.
C3_MetaImpliesWholeBundle ==
    \A d \in CacheDirs :
       cache[d].meta.kind = "valid" =>
          cache[d].exists /\ cache[d].files = BundleFiles(cache[d].meta.version)

\* C4 as stated: cached V, no version requested, update set, registry resolves
\* V: the download and the extraction are skipped and the cache is untouched.
C4_SkipWhenForcedAndCurrent ==
    \A p \in Active :
       LET r == run[p] IN
       (/\ r.resolved /\ StartVersionIs(r, r.bundleVersion)
        /\ ~r.requested.hasVersion /\ r.update) =>
          /\ PastPull(r)
          /\ r.downloads = 0 /\ r.extractions = 0
          /\ cache[r.cacheDir] = r.startCache

\* C4 amended: cached V, update NOT set, a version other than V requested
\* which the registry resolves to V: the download and the extraction are
\* skipped, the cache is untouched and the run goes on to the launch.
C4_SkipWhenResolvedIsCached ==
    \A p \in Active :
       LET r == run[p] IN
       (/\ r.resolved /\ StartVersionIs(r, r.bundleVersion)
        /\ Requested(r) /\ r.requested.version /= r.bundleVersion
        /\ ~r.update) =>
          /\ PastPull(r)
          /\ r.downloads = 0 /\ r.removals = 0
          /\ r.extractions = 0 /\ r.metaWrites = 0
          /\ cache[r.cacheDir] = r.startCache

C4_Witness ==
    \E p \in Active :
       /\ run[p].resolved /\ StartVersionIs(run[p], run[p].bundleVersion)
       /\ Requested(run[p]) /\ run[p].requested.version /= run[p].bundleVersion
       /\ ~run[p].update
       /\ run[p].pc = "running"

\* C5: with the update flag set, every run whose registry resolution succeeds
\* downloads again, deletes the cache directory, extracts again and rewrites
\* the metadata, whatever the cache held, the resolved version included.
C5_UpdateAlwaysPulls ==
    \A p \in Active :
       LET r == run[p] IN
       (r.update /\ r.resolved) =>
          /\ r.needsPull
          /\ r.pc /= "download" => r.downloads = 1
          /\ (r.pc \notin {"download", "remove"} /\ r.failedAt /= "download"
                /\ r.startCache.exists) => r.removals = 1
          /\ PastPull(r) =>
                /\ r.extractions = 1 /\ r.metaWrites = 1
                /\ cache[r.cacheDir] = FullCache(r.bundleVersion)

\* An update run that found the resolved version already cached and pulled it again.
C5_Witness ==
    \E p \in Active :
       /\ run[p].update /\ run[p].resolved
       /\ StartVersionIs(run[p], run[p].bundleVersion)
       /\ run[p].startCache = FullCache(run[p].bundleVersion)
       /\ run[p].extractions = 1 /\ run[p].metaWrites = 1
       /\ run[p].pc = "running"

\* C6: a missing or malformed metadata file (unparseable, or no object with a
\* version) reads as absent, and the run is a cache miss: the registry is
\* contacted and a fresh pull performed, whatever version and flag were given.
C6_MalformedIsCacheMiss ==
    \A p \in Active :
       LET r == run[p] IN
       r.startCache.meta.kind \in {"absent", "unparseable", "noversion"} =>
          /\ r.cachedMeta.isNull
          /\ r.pc = "resolve" \/ r.registryCalls = 1
          /\ r.resolved => (r.pc = "download" \/ r.downloads = 1)

\* C7: every variable defined both in the ambient environment and in the
\* manifest's substituted env map reaches the child with its ambient value
\* (PYTHONPATH, which the python launcher sets itself, aside).
C7_AmbientWins ==
    \A p \in Active :
       LET r == run[p] IN
       r.pc = "running" =>
          \A n \in (DOMAIN r.processEnv \cap DOMAIN r.manifest.env) \ {<<"PYTHONPATH">>} :
             r.child.env[n] = r.processEnv[n]

\* The values stored for the run's package when the run began.
StoredAtStart(r) ==
    IF r.name \in DOMAIN r.startConfig THEN r.startConfig[r.name] ELSE EmptyMap

\* Field f has none of the three sources.
Unresolved(r, f) ==
    /\ f.key \notin DOMAIN StoredAtStart(r)
    /\ EnvVarName(f.key) \notin DOMAIN r.processEnv
    /\ f.default.type = "none"

\* C8: each declared field takes the first available of: the stored value,
\* the ambient MPAK_CONFIG_<KEY>, the declared default as a string; a
\* non-required field with none of them is absent; the map is keyed by field
\* name.
C8_ResolutionPriority ==
    \A p \in Active :
       LET r == run[p]
           uc == r.manifest.user_config
           stored == StoredAtStart(r)
           res == r.userConfigValues
       IN r.gathered =>
          /\ DOMAIN res \subseteq { uc[i].key : i \in 1..Len(uc) }
          /\ \A i \in 1..Len(uc) :
               LET f == uc[i]
                   k == f.key
               IN IF k \in DOMAIN stored
                  THEN k \in DOMAIN res /\ res[k] = stored[k]
                  ELSE IF EnvVarName(k) \in DOMAIN r.processEnv
                  THEN k \in DOMAIN res /\ res[k] = r.processEnv[EnvVarName(k)]
                  ELSE IF f.default.type /= "none"
                  THEN /\ k \in DOMAIN res
                       /\ k = "port" => res[k] = <<Lit("8080")>>
                  ELSE IF f.required
                  THEN k \in DOMAIN res =>
                          \E j \in 1..Len(r.prompted) : r.prompted[j] = k
                  ELSE k \notin DOMAIN res

\* Stored, ambient and default all set, to different values, for "port": the
\* stored one is used; "debug", not required, has none and is absent.
C8_Witness ==
    \E p \in Active :
       LET r == run[p] IN
       /\ r.gathered
       /\ "port" \in DOMAIN StoredAtStart(r)
       /\ EnvVarName("port") \in DOMAIN r.processEnv
       /\ StoredAtStart(r)["port"] /= r.processEnv[EnvVarName("port")]
       /\ r.userConfigValues["port"] = <<Lit("7070")>>
       /\ "debug" \notin DOMAIN r.userConfigValues

\* C9: with a required field unresolved and no terminal on standard input,
\* the run exits with status 1: no prompt, nothing written to the stored
\* values, no child.
C9_MissingRequired(r) ==
    \E i \in 1..Len(r.manifest.user_config) :
       r.manifest.user_config[i].required /\ Unresolved(r, r.manifest.user_config[i])
C10_ToAsk(r) ==
    { i \in 1..Len(r.manifest.user_config) :
        r.manifest.user_config[i].required /\ Unresolved(r, r.manifest.user_config[i]) }
\* The j-th field to ask, by declaration order.
C10_Nth(r, j) ==
    CHOOSE i \in C10_ToAsk(r) : Cardinality({ h \in C10_ToAsk(r) : h < i }) = j - 1
C10_Answered(r, j) ==
    /\ r.prompted[j] \in DOMAIN r.userConfigValues
    /\ Truthy(r.userConfigValues[r.prompted[j]])
C10_PromptOrderAndEmptyAnswer ==
    \A p \in Active :
       LET r == run[p] IN
       (r.gathered /\ r.isTTY) =>
          /\ Len(r.prompted) <= Cardinality(C10_ToAsk(r))
          /\ \A j \in 1..Len(r.prompted) :
               /\ r.prompted[j] = r.manifest.user_config[C10_Nth(r, j)].key
               /\ ~C10_Answered(r, j) =>
                     /\ j = Len(r.prompted)
                     /\ r.pc = "exited" /\ r.exitCode = 1
                     /\ r.spawns = 0
          /\ r.spawns > 0 => Len(r.prompted) = Cardinality(C10_ToAsk(r))

\* Two fields to ask; the first was answered with nothing, the second never asked.
C10_Witness ==
    \E p \in Active :
       LET r == run[p] IN
       /\ r.gathered /\ r.isTTY
       /\ Cardinality(C10_ToAsk(r)) = 2
       /\ Len(r.prompted) = 1
       /\ ~C10_Answered(r, 1)
       /\ r.pc = "exited" /\ r.exitCode = 1

\* The prompts that were answered with a value (so far).
C11_Valued(r) == { j \in 1..Len(r.prompted) : C10_Answered(r, j) }
\* The answers that decline the save.
C11_NoAnswers == {"n", "N"}
\* `after` is `before` with the one value name/key set, nothing else changed.
C11_OneValueWritten(before, after, name, key, value) ==
    LET old == IF name \in DOMAIN before THEN before[name] ELSE EmptyMap IN
    /\ DOMAIN after = DOMAIN before \cup {name}
    /\ \A n \in DOMAIN after \ {name} : after[n] = before[n]
    /\ DOMAIN after[name] = DOMAIN old \cup {key}
    /\ after[name][key] = value
    /\ \A k \in DOMAIN after[name] \ {key} : after[name][k] = old[k]

C12_HasRef(arg, key) ==
    \E j \in 1..(Len(arg) - 2) : SubSeq(arg, j, j + 2) = UserConfigRef(key)

\* C12: when the child is launched, no ${user_config.KEY} with a resolved KEY
\* is left in any element of the argument list or in any value of the env
\* map, and the substituted env map has exactly the manifest env map's keys.
C12_AllReferencesSubstituted ==
    \A p \in Active :
       LET r == run[p] IN
       r.pc = "running" =>
          /\ \A i \in 1..Len(r.child.args) :
                \A key \in DOMAIN r.userConfigValues : ~C12_HasRef(r.child.args[i], key)
          /\ DOMAIN r.substitutedEnv = DOMAIN r.manifest.env
          /\ \A n \in DOMAIN r.substitutedEnv :
                \A j \in 1..Len(r.substitutedEnv[n]) :
                   ~(r.substitutedEnv[n][j].t = "ref"
                       /\ r.substitutedEnv[n][j].v \in DOMAIN r.userConfigValues)

\* C13: substituteUserConfig(value, map) is the result of one left-to-right,
\* non-recursive pass: each ${user_config.KEY} with KEY in the map becomes
\* map[KEY] (the empty string included), every other reference and all other
\* text stays verbatim, and substituted text is not scanned again.
RECURSIVE C13_OnePass(_, _)
C13_OnePass(value, map) ==
    IF value = << >> THEN << >>
    ELSE (IF Head(value).t = "ref" /\ Head(value).v \in DOMAIN map
          THEN map[Head(value).v]
          ELSE <<Head(value)>>) \o C13_OnePass(Tail(value), map)
C13_SinglePassSubstitution ==
    call.fn = "substituteUserConfig" => call.out = C13_OnePass(call.arg, call.map)

\* A scoped name @scope/name: one leading '@', no other, and one '/' with
\* text on both sides.
IsScopedName(s) ==
    /\ Len(s) >= 4 /\ s[1] = "@"
    /\ \A i \in 2..Len(s) : s[i] /= "@"
    /\ \E i \in 3..(Len(s) - 1) : s[i] = "/" /\ \A j \in 1..Len(s) : s[j] = "/" => j = i

\* C14: for every input @scope/name@X with X non-empty, parsePackageSpec
\* returns name @scope/name and version X, also when X contains '@', '+'
\* or '-'.
C14_ScopedVersionSplit ==
    call.fn = "parsePackageSpec" =>
       \A i \in 2..(Len(call.arg) - 1) :
          (call.arg[i] = "@" /\ IsScopedName(SubSeq(call.arg, 1, i - 1))) =>
             /\ call.out.name = SubSeq(call.arg, 1, i - 1)
             /\ call.out.hasVersion
             /\ call.out.version = SubSeq(call.arg, i + 1, Len(call.arg))

\* The input has no version suffix: it starts with '@' and has no other '@'
\* (a scoped name alone, "@" included), or it does not start with '@' (an
\* unscoped name, with or without '@', the empty string included).
C15_NoVersionSuffix(s) ==
    \/ s = << >>
    \/ s[1] /= "@"
    \/ \A i \in 2..Len(s) : s[i] /= "@"

\* C15: parsePackageSpec returns a result for every input, and for an input
\* without a version suffix the result is the whole input as name, with no
\* version.
C15_TotalAndNameUnchanged ==
    call.fn = "parsePackageSpec" =>
       /\ DOMAIN call.out = {"name", "hasVersion", "version"}
       /\ call.out.hasVersion \in BOOLEAN
       /\ ~call.out.hasVersion => call.out.name = call.arg
       /\ C15_NoVersionSuffix(call.arg) =>
             call.out.name = call.arg /\ ~call.out.hasVersion

\* An unscoped name with '@' came back whole.
C15_Witness ==
    /\ call.fn = "parsePackageSpec"
    /\ call.arg = <<"a", "@", "1", "-", "1">>
    /\ call.out.name = call.arg /\ ~call.out.hasVersion

\* C16: getCacheDir maps no two distinct names @scope/name to the same
\* directory.
C16_CacheDirInjective ==
    call.fn = "getCacheDir" =>
       \A other \in ScopedNames \ {call.arg} : getCacheDir(other) /= call.out

\* The run got as far as reading the manifest.
C17_ReadManifest(r) ==
    r.pc \notin PullPcs \cup {"manifest"} /\ r.failedAt \notin PullPcs
C17_FatalSteps == {"extract", "manifest", "gather", "type"}

\* C17: a failed extraction, a missing manifest, a required value missing
\* without a terminal and an unsupported server type each end the run with a
\* non-zero status and no child spawned; a manifest whose type is none of
\* node, python, binary never gets a child.
C17_FatalBeforeLaunch ==
    \A p \in Active :
       LET r == run[p] IN
       /\ r.failedAt \in C17_FatalSteps =>
             /\ r.pc = "exited" /\ r.exitCode /= 0
             /\ r.spawns = 0 /\ r.child = NoChild
       /\ (r.extractions = 1 /\ r.metaWrites = 0 /\ r.pc /= "writemeta"
             /\ r.failedAt /= "writemeta") => r.failedAt = "extract"
       /\ (C17_ReadManifest(r) /\ ~HasManifest(cache[r.cacheDir])) =>
             r.failedAt = "manifest"
       /\ (r.gathered /\ ~r.isTTY /\ r.missingRequired /= << >>) =>
             r.failedAt = "gather"
       /\ (C17_ReadManifest(r) /\ r.failedAt /= "manifest"
             /\ r.manifest.type \notin {"node", "python", "binary"}) =>
             /\ r.pc /= "running"
             /\ r.pc = "exited" =>
                   r.failedAt \in {"gather", "prompt", "type"} /\ r.exitCode /= 0
             /\ r.spawns = 0 /\ r.child = NoChild
       /\ r.spawns > 0 => r.manifest.type \in {"node", "python", "binary"}

\* A cached bundle of an unknown server type was refused.
C17_Witness ==
    \E p \in Active :
       /\ run[p].manifest.type = "wasm"
       /\ run[p].failedAt = "type"
       /\ run[p].pc = "exited" /\ run[p].exitCode = 1 /\ run[p].spawns = 0

C19_ExitCodeMirrorsChild ==
    \A p \in Active :
       LET r == run[p] IN
       r.childEvent = "exit" =>
          /\ r.pc = "exited"
          /\ r.exitCode = (IF r.childCode.isNull THEN 0 ELSE r.childCode.n)

\* A child ended by a forwarded signal (code null): the parent exits 0; and a
\* child that exits 3: the parent exits 3.
C19_Witness ==
    \E p \in Active :
       /\ run[p].childEvent = "exit"
       /\ \/ /\ run[p].childCode.isNull /\ run[p].childSignals /= << >>
             /\ run[p].exitCode = 0
          \/ /\ ~run[p].childCode.isNull /\ run[p].childCode.n = 3
             /\ run[p].exitCode = 3

\* C20: within one run the registry is asked, the bundle downloaded, the
\* archive extracted and the child spawned at most once each; a failed step
\* ends the run, and a failed spawn ends it with status 1 after that one spawn.
C20_NoRetry ==
    \A p \in Active :
       LET r == run[p] IN
       /\ r.registryCalls <= 1 /\ r.downloads <= 1
       /\ r.removals <= 1 /\ r.extractions <= 1 /\ r.metaWrites <= 1
       /\ r.spawns <= 1
       /\ r.failedAt /= "" => r.pc = "exited" /\ r.exitCode /= 0
       /\ r.childEvent = "error" =>
             r.pc = "exited" /\ r.exitCode = 1 /\ r.spawns = 1

\* The spawn failed after a pull: one of each step, exit status 1.
C20_Witness ==
    \E p \in Active :
       /\ run[p].childEvent = "error"
       /\ run[p].registryCalls = 1 /\ run[p].downloads = 1
       /\ run[p].extractions = 1 /\ run[p].spawns = 1
       /\ run[p].pc = "exited" /\ run[p].exitCode = 1

\* C28: when the registry resolution or the download fails in a run that
\* found a cache directory, the directory and its metadata are as the run
\* found them; the old cache is removed only after the download completed.
C28_FailedFetchKeepsCache ==
    \A p \in Active :
       LET r == run[p] IN
       /\ (r.pc \in {"resolve", "download"} \/ r.failedAt \in {"resolve", "download"}) =>
             /\ cache[r.cacheDir] = r.startCache
             /\ r.removals = 0 /\ r.extractions = 0 /\ r.metaWrites = 0
       /\ (r.removals > 0 \/ cache[r.cacheDir] /= r.startCache) =>
             r.downloads = 1 /\ r.failedAt /= "download"

\* A re-pull of a cached bundle whose download failed.
C28_Witness ==
    \E p \in Active :
       /\ run[p].startCache = FullCache(<<"1.0.0">>)
       /\ run[p].needsPull /\ run[p].resolved
       /\ run[p].failedAt = "download" /\ run[p].pc = "exited"
       /\ cache[run[p].cacheDir] = FullCache(<<"1.0.0">>)

\* C29: a value the operator let the run save stays in config.json through
\* the rest of the run, whatever ends it: a later empty answer, an unsupported
\* server type, a failed spawn.
C29_SavedValuesSurvive ==
    \A p \in Active :
       LET r == run[p] IN
       \A i \in 1..Len(r.saveLog) :
          r.saveLog[i].answer \notin C11_NoAnswers =>
             /\ configFile.exists
             /\ r.name \in DOMAIN configFile.packages
             /\ r.saveLog[i].key \in DOMAIN configFile.packages[r.name]
             /\ configFile.packages[r.name][r.saveLog[i].key] = r.saveLog[i].value

\* A saved value, and then the run ended at `step`.
C29_Aborted(r, step) ==
    /\ r.pc = "exited" /\ r.failedAt = step /\ r.exitCode = 1
    /\ \E i \in 1..Len(r.saveLog) : r.saveLog[i].answer \notin C11_NoAnswers
C29_Witness == \E p \in Active : C29_Aborted(run[p], "type")

\* C25: node and python children get the manifest's args with every
\* ${__dirname} replaced by the cache directory, or the single argument
\* <cacheDir>/<entry_point> when the manifest has no args; a binary child's
\* command is <cacheDir>/<entry_point> whatever the manifest declares, and it
\* is spawned even when chmod failed.
RECURSIVE C25_Expanded(_, _)
C25_Expanded(arg, dir) ==
    IF arg = << >> THEN << >>
    ELSE LET n == Len(arg)
             last == IF arg[n] = DirMarker THEN dir ELSE <<arg[n]>>
         IN C25_Expanded(SubSeq(arg, 1, n - 1), dir) \o last
C25_EntryPath(c) == c.cacheDir \o <<"/">> \o c.arg.entry_point
C25_LaunchArguments ==
    call.fn = "launch" =>
      /\ call.spawned
      /\ call.arg.type \in {"node", "python"} =>
            IF call.arg.args /= << >>
            THEN /\ Len(call.out.args) = Len(call.arg.args)
                 /\ \A i \in 1..Len(call.arg.args) :
                      /\ call.out.args[i] = C25_Expanded(call.arg.args[i], call.cacheDir)
                      /\ \A j \in 1..Len(call.out.args[i]) :
                           call.out.args[i][j] /= DirMarker
            ELSE call.out.args = << C25_EntryPath(call) >>
      /\ call.arg.type = "binary" => call.out.command = C25_EntryPath(call)
C25_Witness ==
    /\ call.fn = "launch"
    /\ call.arg.type = "binary"
    /\ call.arg.command = <<"custom-runtime">>
    /\ call.chmodThrew
    /\ call.spawned
    /\ Len(call.arg.args) = 2
    /\ call.out.command = C25_EntryPath(call)

\* C26: a python child's PYTHONPATH is <cacheDir>/deps, followed by ":" and
\* the ambient value when the ambient environment has a non-empty one, and
\* the manifest's own PYTHONPATH never survives; node and binary children
\* get no PYTHONPATH from the launcher.
C26_Key == <<"PYTHONPATH">>
C26_Deps(c) == [i \in 1..(Len(c.cacheDir) + 2) |->
                  Lit((c.cacheDir \o <<"/", "deps">>)[i])]
C26_AmbientSet(c) == C26_Key \in DOMAIN c.processEnv /\ c.processEnv[C26_Key] /= << >>
C26_PythonPath ==
    call.fn = "launch" =>
      /\ call.arg.type = "python" =>
            /\ C26_Key \in DOMAIN call.out.env
            /\ call.out.env[C26_Key] =
                 IF C26_AmbientSet(call)
                 THEN C26_Deps(call) \o <<Lit(":")>> \o call.processEnv[C26_Key]
                 ELSE C26_Deps(call)
      /\ call.arg.type \in {"node", "binary"} =>
            IF C26_Key \in DOMAIN call.out.env
            THEN \/ /\ C26_Key \in DOMAIN call.arg.env
                    /\ call.out.env[C26_Key] = call.arg.env[C26_Key]
                 \/ /\ C26_Key \in DOMAIN call.processEnv
                    /\ call.out.env[C26_Key] = call.processEnv[C26_Key]
            ELSE C26_Key \notin DOMAIN call.arg.env \cup DOMAIN call.processEnv
C26_Witness ==
    /\ call.fn = "launch"
    /\ call.arg.type = "python"
    /\ C26_Key \in DOMAIN call.arg.env
    /\ C26_AmbientSet(call)
    /\ call.out.env[C26_Key] =
         C26_Deps(call) \o <<Lit(":")>> \o call.processEnv[C26_Key]
    /\ call.out.env[C26_Key] /= call.arg.env[C26_Key]
\* C21: loadConfig on an existing file that is unreadable, is not JSON, lacks
\* a string version or lastUpdated, has a registryUrl that is not a string, a
\* packages member or a package entry that is not an object, a value that is
\* not a string, or an unknown top-level field, throws ConfigCorruptedError
\* with the config path and writes nothing.
C21_OffSchema(file) ==
    /\ file.exists
    /\ \/ file.state /= "json"
       \/ file.doc.top /= "object"
       \/ file.doc.version /= "string"
       \/ file.doc.lastUpdated /= "string"
       \/ file.doc.registryUrl.kind \notin {"undefined", "string"}
       \/ file.doc.packagesKind \notin {"undefined", "object"}
       \/ \E n \in DOMAIN file.doc.packages :
            \/ file.doc.packages[n].kind /= "object"
            \/ \E k \in DOMAIN file.doc.packages[n].values :
                 file.doc.packages[n].values[k].kind /= "string"
       \/ file.doc.extra
C21_CorruptedFileRejected ==
    (call.fn = "loadConfig" /\ C21_OffSchema(configFile)) =>
       /\ call.threw
       /\ call.path = ConfigPath
       /\ ~call.wrote
       /\ ~mgr[call.m].loaded

\* C22: after any set or clear operation on a config that loadConfig
\* accepted, the file holds no package with an empty map, and
\* listPackagesWithConfig returns exactly the packages with a stored value.
C22_Objects(config) ==
    /\ config.packagesKind \in {"undefined", "object"}
    /\ \A n \in DOMAIN config.packages : config.packages[n].kind = "object"
C22_NoEmptyPackage ==
    /\ (/\ call.fn \in {"setPackageConfigValue", "clearPackageConfigValue",
                        "clearPackageConfig"}
        /\ ~call.threw
        /\ C22_Objects(configFile.doc)) =>
          \A n \in DOMAIN configFile.doc.packages :
             DOMAIN configFile.doc.packages[n].values /= {}
    /\ (/\ call.fn = "listPackagesWithConfig"
        /\ ~call.threw
        /\ C22_Objects(mgr[call.m].config)) =>
          call.out = { n \in DOMAIN mgr[call.m].config.packages :
                         DOMAIN mgr[call.m].config.packages[n].values /= {} }

\* C23: clearPackageConfigValue returns true exactly when a value was stored
\* for the package and key; afterwards the value reads as undefined and every
\* other stored value is as before; when it returns false nothing is written
\* (the file loadConfig creates when there is none aside).
\* clearPackageConfig returns true exactly when the package had an entry and
\* removes that package's values only.
C23_Stored(packages, name, key) ==
    name \in DOMAIN packages /\ key \in DOMAIN packages[name].values
C23_Pairs(packages) ==
    { <<n, k>> : n \in DOMAIN packages, k \in ConfigKeys } \cap
    { x \in ConfigPackageNames \X ConfigKeys : C23_Stored(packages, x[1], x[2]) }
C23_ObjectsBefore ==
    /\ C22_Objects(mgr[call.m].config)
    /\ \A n \in DOMAIN call.before : call.before[n].kind = "object"
C23_ClearFrame ==
    /\ (/\ call.fn = "clearPackageConfigValue"
        /\ ~call.threw
        /\ C23_ObjectsBefore) =>
          LET after == mgr[call.m].config.packages IN
          /\ call.out = C23_Stored(call.before, call.name, call.key)
          /\ getPackageConfigValue(mgr[call.m].config, call.name, call.key).kind
               = "undefined"
          /\ \A x \in C23_Pairs(call.before) \ {<<call.name, call.key>>} :
               /\ C23_Stored(after, x[1], x[2])
               /\ after[x[1]].values[x[2]] = call.before[x[1]].values[x[2]]
          /\ ~call.out => (call.wrote => call.created)
    /\ (/\ call.fn = "clearPackageConfig"
        /\ ~call.threw
        /\ C23_ObjectsBefore) =>
          LET after == mgr[call.m].config.packages IN
          /\ call.out = (call.name \in DOMAIN call.before)
          /\ call.name \notin DOMAIN after
          /\ \A n \in DOMAIN call.before \ {call.name} :
               n \in DOMAIN after /\ after[n] = call.before[n]
          /\ ~call.out => (call.wrote => call.created)

\* C24: getRegistryUrl returns MPAK_REGISTRY_URL when it is set, the stored
\* registryUrl when only that is set, and https://api.mpak.dev otherwise.
C24_IsSet(url) == url.kind = "string" /\ url.s /= << >>
C24_EnvOverridesStored ==
    (call.fn = "getRegistryUrl" /\ ~call.threw) =>
       call.out = IF C24_IsSet(call.env) THEN call.env.s
                  ELSE IF C24_IsSet(call.stored) THEN call.stored.s
                  ELSE <<"https://api.mpak.dev">>

\* C30: a value written with setPackageConfigValue, through any manager, is
\* what a manager created now reads, until it is cleared or set again.
C30_FreshRead(name, key) ==
    LET L == loadConfig(NewManager, configFile) IN
    IF L.threw THEN JUndefined
    ELSE getPackageConfigValue(L.manager.config, name, key)
C30_PlainObjects ==
    /\ C22_Objects(configFile.doc)
    /\ \A m \in Managers : C22_Objects(mgr[m].config)
    /\ \/ call.fn \in {"setPackageConfigValue", "clearPackageConfig"}
       \/ (call.fn = "clearPackageConfigValue" /\ call.key \in ConfigKeys)
C30_ValuesStayReadable ==
    C30_PlainObjects =>
       \A x \in DOMAIN valuesSet :
          C30_FreshRead(x[1], x[2]) = JString(valuesSet[x])
\* C27: no lock serialises invocations for one package: an idle invocation can
\* always start and an invocation at its delete, extract or write-metadata
\* step can always take it, wherever the other invocation is; so the steps of
\* two pulls interleave, up to metadata that names a version whose bundle is
\* not the one in the cache directory.
C27_NoLock ==
    \A p \in Procs :
       /\ run[p].pc = "idle" => ENABLED StartOverlapping(p)
       /\ run[p].pc = "remove" => ENABLED Remove(p)
       /\ run[p].pc = "extract" => ENABLED Extract(p)
       /\ run[p].pc = "writemeta" => ENABLED WriteMeta(p)
C27_Pulled(r) ==
    /\ r.pc = "manifest"
    /\ r.failedAt = ""
    /\ r.removals + r.extractions + r.metaWrites >= 2
    /\ r.metaWrites = 1
C27_Witness ==
    /\ \A p \in Procs : C27_Pulled(run[p])
    /\ \E d \in CacheDirs, v \in Versions :
         /\ cache[d].meta = MetaValid(v)
         /\ cache[d].files /= BundleFiles(v)
====
